---- MODULE Spec2Model ----
(***************************************************************************)
(* A model of the conversation store (src/src/memory.py), of the agent     *)
(* wrapper (src/src/agent.py) and of the chat endpoints (src/src/main.py)  *)
(* of the AI chatbot backend.                                              *)
(*                                                                         *)
(* Conventions.  A Python Optional[T] is a sequence of length at most one: *)
(* <<>> is None and <<v>> is the value v.  Python strings are TLA+ strings *)
(* and + on them is \o.  A table is the set of its rows.  Time is the      *)
(* value CURRENT_TIMESTAMP would give, counted in clock ticks: two         *)
(* statements executed within one tick get the same timestamp.             *)
(***************************************************************************)
EXTENDS Integers, Sequences, FiniteSets, TLC

VARIABLES
    sessions,   \* table sessions: rows (session_id, created_at, updated_at, metadata)
    messages,   \* table messages: rows (id, session_id, role, content, timestamp, metadata)
    seq,        \* sqlite_sequence of messages: the largest id AUTOINCREMENT has given out
    now,        \* the clock read by CURRENT_TIMESTAMP
    last,       \* the last call made on the store by the direct caller, with what it returned
    agent,      \* src/src/agent.py: the global agent instance (Optional)
    req         \* the HTTP requests in flight, one record per request slot

vars == <<sessions, messages, seq, now, last, agent, req>>

---------------------------------------------------------------------------
(* Bounds of the model *)

MaxTime == 1
MaxMessages == 2
MaxLimit == 1
MaxChunks == 2
MaxPage == 2
MaxOffset == 1
MaxDays == 1

SessionIds == {"s1", "s2"}
ListedIds == {"s1", "s2", "s3"}

\* The instants of the clock where sessions are listed and swept: as many as
\* there are sessions, so that all of them may differ in updated_at.
Instants == 0..(Cardinality(ListedIds) - 1)
Turns == {[role |-> "user", content |-> "Hello"],
          [role |-> "assistant", content |-> "Hi there!"]}
Times == 0..MaxTime

\* The turns of a conversation alternate: the user's, then the assistant's.
turn_at(k) == IF k % 2 = 1 THEN [role |-> "user", content |-> "Hello"]
              ELSE [role |-> "assistant", content |-> "Hi there!"]
Limits == {<<>>} \cup {<<n>> : n \in 0..MaxLimit}

---------------------------------------------------------------------------
(* Python values *)

\* A JSON value: a string, or a list of strings.
JsonStr(s) == [type |-> "str", items |-> <<s>>]
JsonList(l) == [type |-> "list", items |-> l]

\* A dict key as Python holds it: a str, or an int (written in decimal).
StrKey(s) == [type |-> "str", repr |-> s]
IntKey(s) == [type |-> "int", repr |-> s]

\* A Python dict is the set of its items.
EmptyDict == {}
Item(k, v) == [k |-> k, v |-> v]

\* `metadata or {}`: None and the empty dict both give {}.
OrEmptyDict(metadata) == IF metadata = <<>> THEN EmptyDict ELSE metadata[1]

\* json.dumps of a dict: the text of a JSON object, held as the set of its
\* members; every key is written as a JSON string, an int key by its digits.
json_dumps(d) == {[name |-> i.k.repr, value |-> i.v] : i \in d}

\* The stored text handed on as it is, json.loads forgotten.
json_loads_raw(text) == text

\* json.loads of the text of a JSON object: every key comes back a str.
json_loads(text) == {Item(StrKey(m.name), m.value) : m \in text}

Metadatas == {<<>>, <<{Item(StrKey("key"), JsonStr("value"))}>>}

---------------------------------------------------------------------------
(* The store: src/src/memory.py *)

HasSession(S, sid) == \E r \in S : r.session_id = sid

SessionRows(S, sid) == {r \in S : r.session_id = sid}

MessagesOf(M, sid) == {m \in M : m.session_id = sid}

\* PRAGMA foreign_keys is never issued on a connection, and sqlite3.connect
\* leaves it at SQLite's default, off: FOREIGN KEY ... ON DELETE CASCADE of the
\* schema is parsed and not enforced.
foreign_keys == FALSE

\* INSERT INTO sessions raises sqlite3.IntegrityError when the PRIMARY KEY exists.
IntegrityError(S, sid) == HasSession(S, sid)

\* A create_session written with INSERT OR REPLACE: an existing row is replaced
\* and the call reports a creation.
create_session_replace(S, sid, metadata, t) ==
    [ret |-> TRUE, raises |-> FALSE,
     sessions |-> (S \ SessionRows(S, sid))
                    \cup {[session_id |-> sid, created_at |-> t, updated_at |-> t,
                           metadata |-> json_dumps(OrEmptyDict(metadata))]}]

\* A create_session without its `except sqlite3.IntegrityError`: the error of
\* a duplicate id reaches the caller.
create_session_uncaught(S, sid, metadata, t) ==
    IF IntegrityError(S, sid)
    THEN [ret |-> FALSE, raises |-> TRUE, sessions |-> S]
    ELSE [ret |-> TRUE, raises |-> FALSE,
          sessions |-> S \cup {[session_id |-> sid, created_at |-> t,
                                updated_at |-> t,
                                metadata |-> json_dumps(OrEmptyDict(metadata))]}]

\* create_session: what it returns (ret), whether an exception leaves it
\* (raises), and the table after INSERT INTO sessions ... ; commit.  The
\* IntegrityError of a duplicate id is caught and turned into False.
create_session(S, sid, metadata, t) ==
    IF IntegrityError(S, sid)
    THEN [ret |-> FALSE, raises |-> FALSE, sessions |-> S]
    ELSE [ret |-> TRUE, raises |-> FALSE,
          sessions |-> S \cup {[session_id |-> sid, created_at |-> t,
                                updated_at |-> t,
                                metadata |-> json_dumps(OrEmptyDict(metadata))]}]

\* An UPDATE sessions SET updated_at = CURRENT_TIMESTAMP that has lost its
\* WHERE clause: every session is touched.
update_session_timestamp_all(S, sid, t) ==
    {[r EXCEPT !.updated_at = t] : r \in S}

\* UPDATE sessions SET updated_at = CURRENT_TIMESTAMP WHERE session_id = ?
update_session_timestamp(S, sid, t) ==
    {IF r.session_id = sid THEN [r EXCEPT !.updated_at = t] ELSE r : r \in S}

\* INSERT INTO messages (session_id, role, content, metadata): the row it adds,
\* its id the AUTOINCREMENT key: one more than the largest id ever given.
\* With foreign keys enforced the insert would need the parent row.
insert_message(q, sid, role, content, metadata, t) ==
    [id |-> q + 1, session_id |-> sid, role |-> role, content |-> content,
     timestamp |-> t, metadata |-> json_dumps(OrEmptyDict(metadata))]

\* An add_message whose INSERT is an INSERT OR REPLACE keyed on the session:
\* the new message takes the place of the session's earlier ones.
add_message_txn_overwrite(S, M, q, sid, role, content, metadata, t, t2) ==
    [sessions |-> update_session_timestamp(S, sid, t),
     messages |-> (M \ MessagesOf(M, sid))
                    \cup {insert_message(q, sid, role, content, metadata, t2)},
     seq |-> q + 1]

\* An add_message over a table whose ids number the messages of each session
\* from 1, not those of the table.
add_message_txn_numbered_in_session(S, M, q, sid, role, content, metadata, t, t2) ==
    [sessions |-> update_session_timestamp(S, sid, t),
     messages |-> M \cup {[insert_message(q, sid, role, content, metadata, t2)
                              EXCEPT !.id = Cardinality(MessagesOf(M, sid)) + 1]},
     seq |-> q + 1]

\* add_message after its call of create_session: the transaction
\* UPDATE sessions; INSERT INTO messages; commit.  Each of the two statements
\* reads CURRENT_TIMESTAMP for itself: the UPDATE at t, the INSERT at t2 >= t.
add_message_txn_at(S, M, q, sid, role, content, metadata, t, t2) ==
    [sessions |-> update_session_timestamp(S, sid, t),
     messages |-> M \cup {insert_message(q, sid, role, content, metadata, t2)},
     seq |-> q + 1]

\* The transaction of add_message run within one second: both statements
\* read the same CURRENT_TIMESTAMP.
add_message_txn(S, M, q, sid, role, content, metadata, t) ==
    add_message_txn_at(S, M, q, sid, role, content, metadata, t, t)

\* An add_message without its call of self.create_session.
add_message_unensured(S, M, q, sid, role, content, metadata, t) ==
    [raises |-> FALSE] @@ add_message_txn(S, M, q, sid, role, content, metadata, t)

\* add_message as a whole, run without interruption: self.create_session(
\* session_id), whose exception, if any, leaves add_message, and then the
\* transaction.
add_message(S, M, q, sid, role, content, metadata, t) ==
    LET c == create_session(S, sid, <<>>, t)
    IN IF c.raises
       THEN [raises |-> TRUE, sessions |-> c.sessions, messages |-> M, seq |-> q]
       ELSE [raises |-> FALSE] @@
            add_message_txn(c.sessions, M, q, sid, role, content, metadata, t)

\* The orders in which ORDER BY timestamp ASC may return a set of rows: every
\* order that is ascending by timestamp.  Rows with equal timestamps come in
\* an order the statement does not fix.
order_by_timestamp(R) ==
    {f \in [1..Cardinality(R) -> R] :
        /\ \A i, j \in 1..Cardinality(R) : i # j => f[i] # f[j]
        /\ \A i, j \in 1..Cardinality(R) : i < j => f[i].timestamp <= f[j].timestamp}

\* A limit that keeps the most recent rows instead of the oldest.
apply_limit_recent(rows, limit) ==
    IF limit = <<>> \/ limit[1] <= 0
    THEN rows
    ELSE SubSeq(rows, IF limit[1] < Len(rows) THEN Len(rows) - limit[1] + 1 ELSE 1,
                Len(rows))

\* `if limit:` adds LIMIT ? for a limit that is neither None nor 0; SQLite
\* reads a negative LIMIT as no limit.
apply_limit(rows, limit) ==
    IF limit = <<>> \/ limit[1] <= 0
    THEN rows
    ELSE SubSeq(rows, 1, IF limit[1] < Len(rows) THEN limit[1] ELSE Len(rows))

\* The dict get_messages builds of a row.
message_dict(row) ==
    [role |-> row.role, content |-> row.content, timestamp |-> row.timestamp]

\* get_messages: the lists it may return.
get_messages(M, sid, limit) ==
    {LET rows == apply_limit(f, limit)
     IN [i \in 1..Len(rows) |-> message_dict(rows[i])] :
        f \in order_by_timestamp(MessagesOf(M, sid))}

\* A count without its WHERE clause: the messages of the whole table.
count_messages_all(M, sid) == Cardinality(M)

\* SELECT COUNT(*) FROM messages WHERE session_id = ?
count_messages(M, sid) == Cardinality(MessagesOf(M, sid))

\* get_session_info: None, or the dict of the row with its message count.
get_session_info(S, M, sid) ==
    IF ~HasSession(S, sid)
    THEN <<>>
    ELSE LET row == CHOOSE r \in S : r.session_id = sid
         IN <<[session_id |-> row.session_id, created_at |-> row.created_at,
               updated_at |-> row.updated_at,
               metadata |-> json_loads(row.metadata),
               message_count |-> count_messages(M, sid)]>>

\* An ORDER BY updated_at ASC in the place of DESC.
order_by_updated_at_asc(R) ==
    {f \in [1..Cardinality(R) -> R] :
        /\ \A i, j \in 1..Cardinality(R) : i # j => f[i] # f[j]
        /\ \A i, j \in 1..Cardinality(R) : i < j => f[i].updated_at <= f[j].updated_at}

\* The orders in which ORDER BY updated_at DESC may return a set of rows; rows
\* with equal updated_at come in an order the statement does not fix.
order_by_updated_at_desc(R) ==
    {f \in [1..Cardinality(R) -> R] :
        /\ \A i, j \in 1..Cardinality(R) : i # j => f[i] # f[j]
        /\ \A i, j \in 1..Cardinality(R) : i < j => f[i].updated_at >= f[j].updated_at}

\* LIMIT ? OFFSET ?: the rows after the first `offset` ones, `limit` of them
\* at most.  SQLite reads a negative LIMIT as no limit and a negative OFFSET
\* as 0.
limit_offset(rows, limit, offset) ==
    LET skip == IF offset < 0 THEN 0 ELSE offset
        stop == IF limit < 0 \/ skip + limit > Len(rows) THEN Len(rows)
                ELSE skip + limit
    IN IF skip >= stop THEN <<>> ELSE SubSeq(rows, skip + 1, stop)

\* The dict list_sessions builds of a row, message_count being the subquery
\* SELECT COUNT(*) FROM messages WHERE messages.session_id = sessions.session_id.
session_dict(row, M) ==
    [session_id |-> row.session_id, created_at |-> row.created_at,
     updated_at |-> row.updated_at, metadata |-> json_loads(row.metadata),
     message_count |-> count_messages(M, row.session_id)]

\* list_sessions: the lists it may return.
list_sessions(S, M, limit, offset) ==
    {LET rows == limit_offset(f, limit, offset)
     IN [i \in 1..Len(rows) |-> session_dict(rows[i], M)] :
        f \in order_by_updated_at_desc(S)}

\* ON DELETE CASCADE, when enforced, removes the messages of a deleted session.
cascade(M, sids) ==
    IF foreign_keys THEN {m \in M : m.session_id \notin sids} ELSE M

\* A delete_session with `deleted = cursor.rowcount >= 0`: it reports a
\* deletion whether or not a row was deleted.
delete_session_always_true(S, M, sid) ==
    [ret |-> Cardinality(SessionRows(S, sid)) >= 0,
     sessions |-> S \ SessionRows(S, sid),
     messages |-> cascade(M, IF HasSession(S, sid) THEN {sid} ELSE {})]

\* delete_session: DELETE FROM sessions WHERE session_id = ? ; commit
delete_session(S, M, sid) ==
    [ret |-> Cardinality(SessionRows(S, sid)) > 0,
     sessions |-> S \ SessionRows(S, sid),
     messages |-> cascade(M, IF HasSession(S, sid) THEN {sid} ELSE {})]

\* datetime('now', '-' || days || ' days'), for days >= 0, the clock being
\* read in days.
cutoff(t, days) == t - days

\* A sweep with `updated_at <= datetime(...)`: the sessions of exactly the
\* given age go too.
clear_old_sessions_inclusive(S, M, days, t) ==
    LET old == {r \in S : r.updated_at <= cutoff(t, days)}
    IN [ret |-> Cardinality(old),
        sessions |-> S \ old,
        messages |-> cascade(M, {r.session_id : r \in old})]

\* clear_old_sessions: DELETE FROM sessions WHERE updated_at <
\* datetime('now', '-N days'); return cursor.rowcount
clear_old_sessions(S, M, days, t) ==
    LET old == {r \in S : r.updated_at < cutoff(t, days)}
    IN [ret |-> Cardinality(old),
        sessions |-> S \ old,
        messages |-> cascade(M, {r.session_id : r \in old})]

---------------------------------------------------------------------------
(* Calls made directly on the store, one at a time (as the unit tests do) *)

NoCall == [op |-> "none", sid |-> "", limit |-> <<>>, raised |-> FALSE,
           bool |-> FALSE, list |-> <<>>, info |-> <<>>,
           metadata |-> <<>>, offset |-> 0, days |-> 0, count |-> 0]

Called(op, sid) == [NoCall EXCEPT !.op = op, !.sid = sid]

Tick ==
    /\ now < MaxTime
    /\ now' = now + 1
    /\ UNCHANGED <<sessions, messages, seq, last, agent, req>>

CallCreateSession(sid, metadata) ==
    LET r == create_session(sessions, sid, metadata, now)
    IN /\ sessions' = r.sessions
       /\ last' = [Called("create_session", sid) EXCEPT !.bool = r.ret,
                                                        !.raised = r.raises,
                                                        !.metadata = metadata]
       /\ UNCHANGED <<messages, seq, now, agent, req>>

CallAddMessage(sid, role, content, metadata) ==
    /\ seq < MaxMessages
    /\ LET r == add_message(sessions, messages, seq, sid, role, content, metadata, now)
       IN /\ sessions' = r.sessions
          /\ messages' = r.messages
          /\ seq' = r.seq
          /\ last' = [Called("add_message", sid) EXCEPT !.raised = r.raises]
    /\ UNCHANGED <<now, agent, req>>

CallGetMessages(sid, limit) ==
    /\ \E result \in get_messages(messages, sid, limit) :
          last' = [Called("get_messages", sid) EXCEPT !.limit = limit, !.list = result]
    /\ UNCHANGED <<sessions, messages, seq, now, agent, req>>

CallGetSessionInfo(sid) ==
    /\ last' = [Called("get_session_info", sid)
                    EXCEPT !.info = get_session_info(sessions, messages, sid)]
    /\ UNCHANGED <<sessions, messages, seq, now, agent, req>>

CallDeleteSession(sid) ==
    LET r == delete_session(sessions, messages, sid)
    IN /\ sessions' = r.sessions
       /\ messages' = r.messages
       /\ last' = [Called("delete_session", sid) EXCEPT !.bool = r.ret]
       /\ UNCHANGED <<seq, now, agent, req>>

\* A day passes.
Elapse ==
    /\ now + 1 \in Instants
    /\ now' = now + 1
    /\ UNCHANGED <<sessions, messages, seq, last, agent, req>>

CallListSessions(limit, offset) ==
    /\ \E result \in list_sessions(sessions, messages, limit, offset) :
          last' = [Called("list_sessions", "") EXCEPT !.limit = <<limit>>,
                                                     !.offset = offset,
                                                     !.list = result]
    /\ UNCHANGED <<sessions, messages, seq, now, agent, req>>

CallClearOldSessions(days) ==
    LET r == clear_old_sessions(sessions, messages, days, now)
    IN /\ sessions' = r.sessions
       /\ messages' = r.messages
       /\ last' = [Called("clear_old_sessions", "") EXCEPT !.days = days,
                                                           !.count = r.ret]
       /\ UNCHANGED <<seq, now, agent, req>>

---------------------------------------------------------------------------
(* The agent: src/src/agent.py *)

\* settings.openai_temperature (in tenths) and settings.openai_max_tokens
openai_temperature == 7
openai_max_tokens == 1000

\* `x or default`: None and 0 both give the default.
OrDefault(x, default) == IF x = <<>> \/ x[1] = 0 THEN default ELSE x[1]

\* ChatAgent.__init__: the options the agent is built with.
ChatAgent(temperature, max_tokens) ==
    [temperature |-> OrDefault(temperature, openai_temperature),
     max_tokens |-> OrDefault(max_tokens, openai_max_tokens)]

\* What str(e) may be for a fault of the agent executor.
Faults == {"timeout"}

\* What the agent executor may answer, with the tools it used.
Answers == {[output |-> "Hi there!", tools_used |-> <<"calculator">>]}

\* The chunks the streaming executor yields, as long as it is left to: its
\* k-th chunk.  A chunk may be any text, the text "[DONE]" included.
Chunks == {"Hi", "[DONE]", " there!"}
chunk_at(k) == IF k = 1 THEN "Hi" ELSE IF k % 2 = 0 THEN "[DONE]" ELSE " there!"

\* The output ChatAgent.run builds of a caught exception e, from str(e).
apology_bare(description) == description

apology(description) ==
    "I encountered an error: " \o description \o ". Please try again."

\* A run that does not collect the tools of the intermediate steps.
run_no_tools(answer, fault) ==
    IF fault = <<>>
    THEN [output |-> answer.output, tools_used |-> <<>>]
    ELSE [output |-> "I encountered an error: " \o fault[1] \o ". Please try again.",
          tools_used |-> <<>>]

\* ChatAgent.run: the dict it returns when the executor answers, and when the
\* executor raises (fault = <<str(e)>>).
run(answer, fault) ==
    IF fault = <<>>
    THEN [output |-> answer.output, tools_used |-> answer.tools_used]
    ELSE [output |-> apology(fault[1]), tools_used |-> <<>>]

\* The chunk ChatAgent.astream yields of a caught exception e.
error_chunk(description) == "Error: " \o description

---------------------------------------------------------------------------
(* The endpoints: src/src/main.py *)

Requests == {"r1", "r2"}
Kinds == {"chat", "stream", "delete"}
UserMessages == {"Hello"}

\* A request slot: the request's fields, the handler's position and locals,
\* what was sent to the client, and the ids of the rows the request inserted.
Idle == [pc |-> "idle", kind |-> "", session_id |-> "", message |-> "",
         temperature |-> <<>>, max_tokens |-> <<>>,
         metadata |-> <<>>, created |-> FALSE, call |-> <<>>,
         limit |-> 0, offset |-> 0, conn |-> "none",
         settings |-> [enable_auth |-> FALSE, api_key |-> <<>>],
         x_api_key |-> <<>>,
         session_info |-> <<>>, chat_history |-> <<>>,
         fault |-> <<>>, result |-> <<>>,
         producer |-> "none", chunks |-> <<>>, full_response |-> "",
         frames |-> <<>>, status |-> 0, response |-> <<>>, ids |-> <<>>]

\* The rows a request inserted with the given role.
RowsOf(p, role) ==
    {m \in messages : m.role = role /\ \E i \in 1..Len(req[p].ids) : req[p].ids[i] = m.id}

\* `except Exception` of chat and chat_stream: HTTPException(status_code=500).
Fail500(p) == req' = [req EXCEPT ![p].pc = "done", ![p].status = 500]

\* A request arrives.
Start(p, kind, sid, message) ==
    /\ req[p].pc = "idle"
    /\ req' = [req EXCEPT ![p] =
                 [Idle EXCEPT !.kind = kind, !.session_id = sid, !.message = message,
                              !.pc = IF kind = "delete" THEN "delete_session"
                                     ELSE IF kind = "get" THEN "get_session"
                                     ELSE "get_session_info"]]
    /\ UNCHANGED <<sessions, messages, seq, now, last, agent>>

\* chat, chat_stream: session_info = memory.get_session_info(request.session_id)
handler_get_session_info(p) ==
    /\ req[p].pc = "get_session_info"
    /\ LET info == get_session_info(sessions, messages, req[p].session_id)
       IN req' = [req EXCEPT ![p].session_info = info,
                             ![p].pc = IF info = <<>> THEN "create_session"
                                       ELSE "get_messages"]
    /\ UNCHANGED <<sessions, messages, seq, now, last, agent>>

\* chat, chat_stream: if not session_info: memory.create_session(request.session_id)
handler_create_session(p) ==
    /\ req[p].pc = "create_session"
    /\ LET r == create_session(sessions, req[p].session_id, <<>>, now)
       IN /\ sessions' = r.sessions
          /\ IF r.raises THEN Fail500(p)
             ELSE req' = [req EXCEPT ![p].pc = "get_messages"]
    /\ UNCHANGED <<messages, seq, now, last, agent>>

\* A handler that reads the history after it has saved the user message: the
\* history holds the current turn.
handler_get_messages_with_turn(p) ==
    /\ req[p].pc = "get_messages"
    /\ \E history \in get_messages(messages, req[p].session_id, <<>>) :
          req' = [req EXCEPT ![p].chat_history =
                                 Append(history, [role |-> "user",
                                                  content |-> req[p].message,
                                                  timestamp |-> now]),
                             ![p].pc = "add_user"]
    /\ UNCHANGED <<sessions, messages, seq, now, last, agent>>

\* chat, chat_stream: chat_history = memory.get_messages(request.session_id)
handler_get_messages(p) ==
    /\ req[p].pc = "get_messages"
    /\ \E history \in get_messages(messages, req[p].session_id, <<>>) :
          req' = [req EXCEPT ![p].chat_history = history, ![p].pc = "add_user"]
    /\ UNCHANGED <<sessions, messages, seq, now, last, agent>>

\* memory.add_message, first part: conn = sqlite3.connect(self.db_path), then
\* its call of self.create_session, which opens, commits and closes a
\* connection of its own.  An exception leaves through `finally: conn.close()`.
AddMessageEnsure(p, next) ==
    LET r == create_session(sessions, req[p].session_id, <<>>, now)
    IN /\ sessions' = r.sessions
       /\ IF r.raises
          THEN IF req[p].status = 0 THEN Fail500(p)
               ELSE req' = [req EXCEPT ![p].pc = "aborted"]
          ELSE req' = [req EXCEPT ![p].pc = next, ![p].conn = "open"]
       /\ UNCHANGED <<messages, seq, now, last, agent>>

\* An add_message that has lost its `finally: conn.close()`: the connection
\* stays open when the call has returned.
AddMessageCommit_unclosed(p, role, content, metadata, after) ==
    \E t2 \in {now, now + 1} \cap Times :
        LET r == add_message_txn_at(sessions, messages, seq, req[p].session_id,
                                    role, content, metadata, now, t2)
        IN /\ sessions' = r.sessions
           /\ messages' = r.messages
           /\ seq' = r.seq
           /\ now' = t2
           /\ req' = [req EXCEPT ![p] = [after EXCEPT !.ids = Append(req[p].ids, r.seq)]]
           /\ UNCHANGED <<last, agent>>

\* memory.add_message, second part: its transaction, during which the clock
\* may pass to the next second, and `finally: conn.close()`; `after` is the
\* request record once the call has returned.
AddMessageCommit(p, role, content, metadata, after) ==
    \E t2 \in {now, now + 1} \cap Times :
        LET r == add_message_txn_at(sessions, messages, seq, req[p].session_id,
                                    role, content, metadata, now, t2)
        IN /\ sessions' = r.sessions
           /\ messages' = r.messages
           /\ seq' = r.seq
           /\ now' = t2
           /\ req' = [req EXCEPT ![p] = [after EXCEPT !.ids = Append(req[p].ids, r.seq),
                                                    !.conn = "none"]]
           /\ UNCHANGED <<last, agent>>

\* chat, chat_stream: memory.add_message(session_id, role="user", content=request.message)
save_user_message(p) ==
    \/ /\ req[p].pc = "add_user"
       /\ AddMessageEnsure(p, "add_user_txn")
    \/ /\ req[p].pc = "add_user_txn"
       /\ AddMessageCommit(p, "user", req[p].message, <<>>,
                           [req[p] EXCEPT !.pc = "get_agent"])

\* get_agent: the global agent is built on the first call, with that call's
\* options, and returned as it is afterwards.  Building it may raise.
get_agent(p) ==
    /\ req[p].pc = "get_agent"
    /\ \/ /\ agent' = IF agent = <<>>
                      THEN <<ChatAgent(req[p].temperature, req[p].max_tokens)>>
                      ELSE agent
          /\ req' = [req EXCEPT ![p].pc = IF req[p].kind = "chat" THEN "run" ELSE "astream",
                                ![p].status = IF req[p].kind = "chat" THEN 0 ELSE 200,
                                ![p].producer = IF req[p].kind = "chat" THEN "none"
                                                ELSE "running"]
       \/ /\ agent = <<>>
          /\ agent' = agent
          /\ Fail500(p)
    /\ UNCHANGED <<sessions, messages, seq, now, last>>

\* The arguments agent.run and agent.astream are called with:
\* user_input=request.message, chat_history=chat_history.
Invoke(r) ==
    [r EXCEPT !.call = <<[user_input |-> r.message, chat_history |-> r.chat_history]>>]

\* chat: result = agent.run(user_input=request.message, chat_history=chat_history)
agent_run(p) ==
    /\ req[p].pc = "run"
    /\ \E answer \in Answers, fault \in {<<>>} \cup {<<d>> : d \in Faults} :
          req' = [req EXCEPT ![p] = [Invoke(req[p]) EXCEPT
                                        !.result = <<run(answer, fault)>>,
                                        !.fault = fault,
                                        !.pc = "add_asst"]]
    /\ UNCHANGED <<sessions, messages, seq, now, last, agent>>

\* chat: memory.add_message(role="assistant", content=result["output"],
\* metadata={"tools_used": result["tools_used"]}); return ChatResponse(...)
save_assistant_response(p) ==
    /\ req[p].kind = "chat"
    /\ \/ /\ req[p].pc = "add_asst"
          /\ AddMessageEnsure(p, "add_asst_txn")
       \/ /\ req[p].pc = "add_asst_txn"
          /\ LET result == req[p].result[1]
             IN AddMessageCommit(p, "assistant", result.output,
                   <<{Item(StrKey("tools_used"), JsonList(result.tools_used))}>>,
                   [req[p] EXCEPT !.pc = "done", !.status = 200,
                                  !.response = <<[response |-> result.output,
                                                  session_id |-> req[p].session_id,
                                                  tools_used |-> result.tools_used]>>])

\* generate: full_response = chunk, a slip for full_response += chunk.
accumulate_overwrite(full_response, chunk) == chunk

\* generate: full_response += chunk
accumulate(full_response, chunk) == full_response \o chunk

\* generate: yield f"data: {chunk}\n\n"
frame(chunk) == "data: " \o chunk \o "\n\n"

DoneFrame == "data: [DONE]\n\n"

\* A loop of generate that has lost its yield: the chunk is added to
\* full_response and no frame goes out.
Forward_unsent(r, chunk) ==
    [r EXCEPT !.chunks = Append(r.chunks, chunk),
              !.full_response = accumulate(r.full_response, chunk)]

\* generate, one turn of its loop: the chunk is added to full_response and its
\* frame is handed to the client.
Forward(r, chunk) ==
    [r EXCEPT !.chunks = Append(r.chunks, chunk),
              !.full_response = accumulate(r.full_response, chunk),
              !.frames = Append(r.frames, frame(chunk))]

\* astream yields a chunk of the executor's output.
stream_chunk(p, chunk) ==
    /\ chunk = chunk_at(Len(req[p].chunks) + 1)
    /\ req[p].pc = "astream"
    /\ req[p].producer = "running"
    /\ Len(req[p].chunks) < MaxChunks
    /\ req' = [req EXCEPT ![p] = Forward(Invoke(req[p]), chunk)]
    /\ UNCHANGED <<sessions, messages, seq, now, last, agent>>

\* The executor raises: astream catches the exception and yields
\* f"Error: {str(e)}" as a chunk, after which it has nothing more to yield.
stream_fault(p, description) ==
    /\ req[p].pc = "astream"
    /\ req[p].producer = "running"
    /\ req' = [req EXCEPT ![p] = [Forward(Invoke(req[p]), error_chunk(description))
                                     EXCEPT !.fault = <<description>>,
                                            !.producer = "faulted"]]
    /\ UNCHANGED <<sessions, messages, seq, now, last, agent>>

\* astream is exhausted: the loop of generate ends.
stream_end(p) ==
    /\ req[p].pc = "astream"
    /\ req' = [req EXCEPT ![p] = [Invoke(req[p]) EXCEPT !.producer = "ended",
                                                        !.pc = "add_asst"]]
    /\ UNCHANGED <<sessions, messages, seq, now, last, agent>>

\* A generate that yields the end-of-stream frame before it saves the
\* assistant message.
save_streamed_response_done_first(p) ==
    /\ req[p].kind = "stream"
    /\ \/ /\ req[p].pc = "add_asst"
          /\ req' = [req EXCEPT ![p].frames = Append(req[p].frames, DoneFrame),
                                ![p].pc = "add_asst_late"]
          /\ UNCHANGED <<sessions, messages, seq, now, last, agent>>
       \/ /\ req[p].pc = "add_asst_late"
          /\ AddMessageEnsure(p, "add_asst_txn")
       \/ /\ req[p].pc = "add_asst_txn"
          /\ AddMessageCommit(p, "assistant", req[p].full_response, <<>>,
                [req[p] EXCEPT !.pc = "yield_done"])

\* generate, after the loop: memory.add_message(role="assistant",
\* content=full_response); yield "data: [DONE]\n\n"
save_streamed_response(p) ==
    /\ req[p].kind = "stream"
    /\ \/ /\ req[p].pc = "add_asst"
          /\ AddMessageEnsure(p, "add_asst_txn")
       \/ /\ req[p].pc = "add_asst_txn"
          /\ AddMessageCommit(p, "assistant", req[p].full_response, <<>>,
                [req[p] EXCEPT !.pc = "yield_done",
                               !.frames = Append(req[p].frames, DoneFrame)])

\* The add_message of generate fails on a storage error, in its
\* self.create_session or in its own statements: `finally: conn.close()`
\* drops what was not committed, the exception leaves generate, and the
\* response ends there.
add_message_fails(p) ==
    /\ req[p].kind = "stream"
    /\ req[p].pc \in {"add_asst", "add_asst_txn"}
    /\ req' = [req EXCEPT ![p].pc = "aborted", ![p].conn = "none"]
    /\ UNCHANGED <<sessions, messages, seq, now, last, agent>>

\* The client has received the end-of-stream frame: the response is complete.
deliver_done(p) ==
    /\ req[p].pc = "yield_done"
    /\ req' = [req EXCEPT ![p].pc = "closed"]
    /\ UNCHANGED <<sessions, messages, seq, now, last, agent>>

\* A cancellation that saves what was received so far (as a `finally:` would).
cancel_saving(p) ==
    /\ req[p].pc \in {"astream", "yield_done"}
    /\ AddMessageCommit(p, "assistant", req[p].full_response, <<>>,
                        [req[p] EXCEPT !.pc = "cancelled"])

\* The client disconnects: the response task is cancelled where generate is
\* suspended, awaiting the next chunk or at one of its yields, and nothing
\* more of generate runs.
cancel(p) ==
    /\ req[p].pc \in {"astream", "yield_done"}
    /\ req' = [req EXCEPT ![p].pc = "cancelled"]
    /\ UNCHANGED <<sessions, messages, seq, now, last, agent>>

\* What str(uuid.uuid4()) may give: an id that no session, message or other
\* request has.
UuidIds == {"u1"}

uuid4 ==
    {u \in UuidIds : /\ ~HasSession(sessions, u)
                     /\ MessagesOf(messages, u) = {}
                     /\ \A q \in Requests : req[q].session_id # u}

\* A POST /sessions request arrives: session_id = request.session_id or
\* str(uuid.uuid4()), None and "" both giving a new id.
StartCreate(p, sid, metadata) ==
    /\ req[p].pc = "idle"
    /\ \E id \in (IF sid = "" THEN uuid4 ELSE {sid}) :
          req' = [req EXCEPT ![p] =
                    [Idle EXCEPT !.kind = "create", !.session_id = id,
                                 !.metadata = metadata, !.pc = "post_create"]]
    /\ UNCHANGED <<sessions, messages, seq, now, last, agent>>

\* The SessionResponse built of a session_info dict.
SessionResponse(info) ==
    [session_id |-> info.session_id, created_at |-> info.created_at,
     message_count |-> info.message_count, metadata |-> info.metadata]

\* POST /sessions: created = memory.create_session(session_id, request.metadata);
\* session_info = memory.get_session_info(session_id); 500 if there is none,
\* else the SessionResponse of it.
api_create_session(p) ==
    \/ /\ req[p].pc = "post_create"
       /\ LET r == create_session(sessions, req[p].session_id, req[p].metadata, now)
          IN /\ sessions' = r.sessions
             /\ IF r.raises THEN Fail500(p)
                ELSE req' = [req EXCEPT ![p].created = r.ret, ![p].pc = "post_info"]
       /\ UNCHANGED <<messages, seq, now, last, agent>>
    \/ /\ req[p].pc = "post_info"
       /\ LET info == get_session_info(sessions, messages, req[p].session_id)
          IN IF info = <<>> THEN Fail500(p)
             ELSE req' = [req EXCEPT ![p].session_info = info,
                                     ![p].pc = "done",
                                     ![p].status = 200,
                                     ![p].response = <<SessionResponse(info[1])>>]
       /\ UNCHANGED <<sessions, messages, seq, now, last, agent>>

\* A GET /sessions request arrives, with its query parameters.
StartList(p, limit, offset) ==
    /\ req[p].pc = "idle"
    /\ req' = [req EXCEPT ![p] = [Idle EXCEPT !.kind = "list", !.limit = limit,
                                              !.offset = offset,
                                              !.pc = "list_sessions"]]
    /\ UNCHANGED <<sessions, messages, seq, now, last, agent>>

\* GET /sessions: sessions = memory.list_sessions(limit=limit, offset=offset);
\* SessionListResponse(sessions=session_responses, total=len(session_responses))
api_list_sessions(p) ==
    /\ req[p].pc = "list_sessions"
    /\ \E result \in list_sessions(sessions, messages, req[p].limit, req[p].offset) :
          LET session_responses ==
                  [i \in 1..Len(result) |-> SessionResponse(result[i])]
          IN req' = [req EXCEPT ![p].pc = "done",
                                ![p].status = 200,
                                ![p].response =
                                    <<[sessions |-> session_responses,
                                       total |-> Len(session_responses)]>>]
    /\ UNCHANGED <<sessions, messages, seq, now, last, agent>>

\* raise HTTPException(status_code=404), passed on by `except HTTPException: raise`.
Fail404(p) == req' = [req EXCEPT ![p].pc = "done", ![p].status = 404]

\* A GET /sessions/{id} without its `except HTTPException: raise`: the 404 is
\* caught by `except Exception` and answered as a 500.
api_get_session_uncaught(p) ==
    /\ req[p].pc = "get_session"
    /\ LET info == get_session_info(sessions, messages, req[p].session_id)
       IN IF info = <<>> THEN Fail500(p)
          ELSE req' = [req EXCEPT ![p].session_info = info,
                                  ![p].pc = "done",
                                  ![p].status = 200,
                                  ![p].response = <<SessionResponse(info[1])>>]
    /\ UNCHANGED <<sessions, messages, seq, now, last, agent>>

\* GET /sessions/{session_id}: 404 when get_session_info returns None, else
\* the SessionResponse of the session.
api_get_session(p) ==
    /\ req[p].pc = "get_session"
    /\ LET info == get_session_info(sessions, messages, req[p].session_id)
       IN IF info = <<>> THEN Fail404(p)
          ELSE req' = [req EXCEPT ![p].session_info = info,
                                  ![p].pc = "done",
                                  ![p].status = 200,
                                  ![p].response = <<SessionResponse(info[1])>>]
    /\ UNCHANGED <<sessions, messages, seq, now, last, agent>>

\* DELETE /sessions/{session_id}: 200, or 404 when delete_session returns False.
api_delete_session(p) ==
    /\ req[p].pc = "delete_session"
    /\ LET r == delete_session(sessions, messages, req[p].session_id)
       IN /\ sessions' = r.sessions
          /\ messages' = r.messages
          /\ req' = [req EXCEPT ![p].pc = "done",
                                ![p].status = IF r.ret THEN 200 ELSE 404]
    /\ UNCHANGED <<seq, now, last, agent>>

---------------------------------------------------------------------------
(* Specifications *)

Init ==
    /\ sessions = {}
    /\ messages = {}
    /\ seq = 0
    /\ now = 0
    /\ last = NoCall
    /\ agent = <<>>
    /\ req = [p \in Requests |-> Idle]

NextStore ==
    \/ Tick
    \/ \E sid \in SessionIds, metadata \in Metadatas : CallCreateSession(sid, metadata)
    \/ \E sid \in SessionIds, turn \in Turns :
          CallAddMessage(sid, turn.role, turn.content, <<>>)
    \/ \E sid \in SessionIds, limit \in Limits : CallGetMessages(sid, limit)
    \/ \E sid \in SessionIds : CallGetSessionInfo(sid)
    \/ \E sid \in SessionIds : CallDeleteSession(sid)

\* The store under calls made one at a time.
SpecStore == Init /\ [][NextStore]_vars

NextSessions ==
    \/ Elapse
    \/ \E sid \in ListedIds : CallCreateSession(sid, <<>>)
    \/ \E sid \in ListedIds :
          LET turn == turn_at(seq + 1)
          IN CallAddMessage(sid, turn.role, turn.content, <<>>)
    \/ \E limit \in 0..MaxPage, offset \in 0..MaxOffset : CallListSessions(limit, offset)
    \/ \E days \in 0..MaxDays : CallClearOldSessions(days)

NextLog ==
    \/ Tick
    \/ \E sid \in SessionIds : CallCreateSession(sid, <<>>)
    \/ \E sid \in SessionIds :
          LET turn == turn_at(seq + 1)
          IN CallAddMessage(sid, turn.role, turn.content, <<>>)
    \/ \E sid \in SessionIds : CallGetMessages(sid, <<>>)
    \/ \E sid \in SessionIds : CallGetSessionInfo(sid)
    \/ \E limit \in 1..MaxPage, offset \in 0..MaxOffset : CallListSessions(limit, offset)
    \/ \E sid \in SessionIds : CallDeleteSession(sid)

\* The message log under every method of the store that reads or writes it,
\* called one at a time.
SpecLog == Init /\ [][NextLog]_vars

\* The store under calls made one at a time, over days: sessions are listed
\* and old ones are swept.
SpecSessions == Init /\ [][NextSessions]_vars

NextApi ==
    \/ Tick
    \/ \E sid \in SessionIds :
          LET turn == turn_at(seq + 1)
          IN CallAddMessage(sid, turn.role, turn.content, <<>>)
    \/ \E p \in Requests, sid \in SessionIds \cup {""}, metadata \in Metadatas :
          StartCreate(p, sid, metadata)
    \/ \E p \in Requests, kind \in {"get", "delete"}, sid \in SessionIds :
          Start(p, kind, sid, "")
    \/ \E p \in Requests, limit \in 0..MaxPage, offset \in 0..MaxOffset :
          StartList(p, limit, offset)
    \/ \E p \in Requests : api_create_session(p)
    \/ \E p \in Requests : api_list_sessions(p)
    \/ \E p \in Requests : api_get_session(p)
    \/ \E p \in Requests : api_delete_session(p)

\* The session endpoints, POST /sessions, GET /sessions, GET /sessions/{id}
\* and DELETE /sessions/{id}, serving requests whose steps on the store
\* interleave, beside a writer of messages.
SpecApi == Init /\ [][NextApi]_vars

NextChat ==
    \/ Tick
    \/ \E p \in Requests, kind \in {"chat", "delete"}, sid \in SessionIds,
          message \in UserMessages :
          Start(p, kind, sid, message)
    \/ \E p \in Requests : handler_get_session_info(p)
    \/ \E p \in Requests : handler_create_session(p)
    \/ \E p \in Requests : handler_get_messages(p)
    \/ \E p \in Requests : save_user_message(p)
    \/ \E p \in Requests : get_agent(p)
    \/ \E p \in Requests : agent_run(p)
    \/ \E p \in Requests : save_assistant_response(p)
    \/ \E p \in Requests : api_delete_session(p)

\* Settings.enable_auth and Settings.api_key (Optional[str]) as the process
\* may be configured, and the X-API-Key header a request may carry.
SettingsValues == [enable_auth : BOOLEAN, api_key : {<<>>, <<"">>, <<"key">>}]
ApiKeyHeaders == {<<>>, <<"key">>, <<"other">>}

\* verify_api_key: TRUE when it returns True, FALSE when it raises
\* HTTPException(401).  `not settings.api_key` holds for None and for "".
verify_api_key(settings, x_api_key) ==
    IF ~settings.enable_auth THEN TRUE
    ELSE IF settings.api_key = <<>> \/ settings.api_key = <<"">> THEN TRUE
    ELSE x_api_key = settings.api_key

\* A request to a protected endpoint arrives: Depends(verify_api_key) runs
\* before the handler and answers 401 when it raises.  The settings are those
\* of the process, the same for all its requests.
StartProtected(p, kind, sid, settings, x_api_key) ==
    /\ req[p].pc = "idle"
    /\ \A q \in Requests : req[q].pc # "idle" => req[q].settings = settings
    /\ req' = [req EXCEPT ![p] =
                 [Idle EXCEPT !.kind = kind, !.session_id = sid,
                              !.settings = settings, !.x_api_key = x_api_key,
                              !.status = IF verify_api_key(settings, x_api_key)
                                         THEN 0 ELSE 401,
                              !.pc = IF ~verify_api_key(settings, x_api_key) THEN "done"
                                     ELSE IF kind = "delete" THEN "delete_session"
                                     ELSE "get_session"]]
    /\ UNCHANGED <<sessions, messages, seq, now, last, agent>>

NextAuth ==
    \/ \E sid \in SessionIds :
          LET turn == turn_at(seq + 1)
          IN CallAddMessage(sid, turn.role, turn.content, <<>>)
    \/ \E p \in Requests, kind \in {"get", "delete"}, sid \in SessionIds,
          settings \in SettingsValues, x_api_key \in ApiKeyHeaders :
          StartProtected(p, kind, sid, settings, x_api_key)
    \/ \E p \in Requests : api_get_session(p)
    \/ \E p \in Requests : api_delete_session(p)

\* GET and DELETE /sessions/{id} behind Depends(verify_api_key), beside a
\* writer of messages.
SpecAuth == Init /\ [][NextAuth]_vars

\* The overrides a ChatRequest may carry: temperature (in tenths, 0.0 to 2.0)
\* and max_tokens (1 to 4000), each optional.
Temperatures == {<<>>, <<2>>}
MaxTokens == {<<>>, <<500>>}

\* A POST /chat request arrives with its overrides.
StartChat(p, sid, message, temperature, max_tokens) ==
    /\ req[p].pc = "idle"
    /\ req' = [req EXCEPT ![p] =
                 [Idle EXCEPT !.kind = "chat", !.session_id = sid, !.message = message,
                              !.temperature = temperature, !.max_tokens = max_tokens,
                              !.pc = "get_session_info"]]
    /\ UNCHANGED <<sessions, messages, seq, now, last, agent>>

NextAgent ==
    \/ \E p \in Requests, sid \in SessionIds, message \in UserMessages,
          temperature \in Temperatures, max_tokens \in MaxTokens :
          StartChat(p, sid, message, temperature, max_tokens)
    \/ \E p \in Requests : handler_get_session_info(p)
    \/ \E p \in Requests : handler_create_session(p)
    \/ \E p \in Requests : handler_get_messages(p)
    \/ \E p \in Requests : save_user_message(p)
    \/ \E p \in Requests : get_agent(p)
    \/ \E p \in Requests : agent_run(p)
    \/ \E p \in Requests : save_assistant_response(p)

\* POST /chat requests that carry overrides of the agent's options.
SpecAgent == Init /\ [][NextAgent]_vars

\* POST /chat and DELETE /sessions/{id} serving requests whose steps on the
\* store interleave.
SpecChat == Init /\ [][NextChat]_vars

NextStream ==
    \/ Tick
    \/ \E p \in Requests, kind \in Kinds, sid \in SessionIds, message \in UserMessages :
          /\ kind = "stream" => \A q \in Requests : req[q].kind # "stream"
          /\ Start(p, kind, sid, message)
    \/ \E p \in Requests : handler_get_session_info(p)
    \/ \E p \in Requests : handler_create_session(p)
    \/ \E p \in Requests : handler_get_messages(p)
    \/ \E p \in Requests : save_user_message(p)
    \/ \E p \in Requests : get_agent(p)
    \/ \E p \in Requests : agent_run(p)
    \/ \E p \in Requests : save_assistant_response(p)
    \/ \E p \in Requests, chunk \in Chunks : stream_chunk(p, chunk)
    \/ \E p \in Requests, description \in Faults : stream_fault(p, description)
    \/ \E p \in Requests : stream_end(p)
    \/ \E p \in Requests : save_streamed_response(p)
    \/ \E p \in Requests : deliver_done(p)
    \/ \E p \in Requests : cancel(p)
    \/ \E p \in Requests : api_delete_session(p)

\* One POST /chat/stream in flight, with other requests beside it.
SpecStream == Init /\ [][NextStream]_vars

NextStreamFault ==
    \/ NextStream
    \/ \E p \in Requests : add_message_fails(p)

\* The same, with a store whose writes may fail when generate saves.
SpecStreamFault == Init /\ [][NextStreamFault]_vars

---------------------------------------------------------------------------
(* Helpers of the properties *)

Min(a, b) == IF a < b THEN a ELSE b

\* The rows of R in the order of their insertion: ascending by id.
InsertionOrder(R) ==
    CHOOSE f \in [1..Cardinality(R) -> R] :
        \A i, j \in 1..Cardinality(R) : i < j => f[i].id < f[j].id

\* The messages of a session as get_messages shows them, in insertion order.
AppendOrder(M, sid) ==
    [i \in 1..Cardinality(MessagesOf(M, sid)) |->
        message_dict(InsertionOrder(MessagesOf(M, sid))[i])]

---------------------------------------------------------------------------
(* C1 *)

\* C1 (as claimed): once delete_session(id) has returned True, no message of
\* that session is left, get_messages(id) returns the empty list and
\* get_session_info(id) returns None; and in no state is a session absent
\* while messages of it are stored.
C1_DeleteRemovesMessages ==
    /\ (last.op = "delete_session" /\ last.bool) =>
          /\ MessagesOf(messages, last.sid) = {}
          /\ get_messages(messages, last.sid, <<>>) = {<<>>}
          /\ get_session_info(sessions, messages, last.sid) = <<>>
    /\ \A m \in messages : HasSession(sessions, m.session_id)

---------------------------------------------------------------------------
(* C2 *)

\* C2: a call of create_session(id) returns True exactly when no session id
\* existed before it, never raises, and leaves exactly one session id; a
\* delete_session(id) that returns True leaves no session id, so that a further
\* create_session(id) returns True again.
C2_CreateTrueFalseTrue ==
    [][/\ (last'.op = "create_session" /\ (last' # last \/ sessions' # sessions)) =>
            /\ last'.bool = ~HasSession(sessions, last'.sid)
            /\ ~last'.raised
            /\ Cardinality(SessionRows(sessions', last'.sid)) = 1
       /\ (last'.op = "delete_session" /\ last' # last /\ last'.bool) =>
            /\ HasSession(sessions, last'.sid)
            /\ ~HasSession(sessions', last'.sid)]_vars

\* create_session returns True for an id that had a session with messages
\* before: the session was created, deleted and is created again.
C2_Witness ==
    /\ last.op = "create_session"
    /\ last.bool
    /\ MessagesOf(messages, last.sid) # {}

---------------------------------------------------------------------------
(* C3 *)

---------------------------------------------------------------------------
(* C10 *)

\* C10: for a session of k messages and a limit n >= 1, get_messages(id, n)
\* returns min(n, k) messages, they are the first min(n, k) of a full listing
\* in the same order, and they are the oldest ones: for every time t, the
\* result holds as many messages not newer than t as the session has, up to n.
C10_LimitOldest ==
    (last.op = "get_messages" /\ last.limit # <<>> /\ last.limit[1] >= 1) =>
        LET n == last.limit[1]
            own == MessagesOf(messages, last.sid)
            k == Cardinality(own)
        IN /\ Len(last.list) = Min(n, k)
           /\ \E full \in get_messages(messages, last.sid, <<>>) :
                 last.list = SubSeq(full, 1, Min(n, k))
           /\ \A t \in Times :
                 Cardinality({i \in 1..Len(last.list) : last.list[i].timestamp <= t})
                   = Min(n, Cardinality({m \in own : m.timestamp <= t}))

\* A listing limited to 1 of a session that holds an older and a newer message.
C10_Witness ==
    /\ last.op = "get_messages"
    /\ last.limit = <<1>>
    /\ Len(last.list) = 1
    /\ \E m1, m2 \in MessagesOf(messages, last.sid) : m1.timestamp < m2.timestamp

---------------------------------------------------------------------------
(* Helpers of the properties on requests *)

RECURSIVE Concat(_)
Concat(ss) == IF ss = <<>> THEN "" ELSE Head(ss) \o Concat(Tail(ss))

---------------------------------------------------------------------------
(* C4 *)

\* C4: a /chat/stream request appends an assistant message only once the
\* producer has signalled its end, never more than one, and once generate has
\* passed its loop and its save, exactly one: a message of the request's
\* session whose content is the concatenation, in order, of the chunks whose
\* frames were handed to the client.
C4_StreamSavesConcatenation ==
    \A p \in Requests :
        req[p].kind = "stream" =>
            /\ RowsOf(p, "assistant") # {} => req[p].producer = "ended"
            /\ Cardinality(RowsOf(p, "assistant")) <= 1
            /\ \A i \in 1..Len(req[p].chunks) :
                  req[p].frames[i] = "data: " \o req[p].chunks[i] \o "\n\n"
            /\ (req[p].producer = "ended" /\ req[p].pc \in {"yield_done", "closed", "cancelled"}) =>
                  \E m \in messages :
                      /\ RowsOf(p, "assistant") = {m}
                      /\ m.session_id = req[p].session_id
                      /\ m.content = Concat(req[p].chunks)

\* A stream of two chunks has completed and its message "Hi[DONE]" is stored.
C4_Witness ==
    \E p \in Requests :
        /\ req[p].kind = "stream"
        /\ req[p].pc = "closed"
        /\ req[p].fault = <<>>
        /\ Len(req[p].chunks) = 2
        /\ \E m \in RowsOf(p, "assistant") : m.content = "Hi[DONE]"

---------------------------------------------------------------------------
(* C5 *)

\* C5 (as claimed): a /chat/stream response cancelled before the end-of-stream
\* frame has been delivered has persisted no assistant message for its turn.
C5_CancelledNothingSaved ==
    \A p \in Requests :
        (req[p].kind = "stream" /\ req[p].pc = "cancelled") =>
            RowsOf(p, "assistant") = {}

\* C5 (amended): a /chat/stream response cancelled before the producer has
\* signalled the end of the chunk sequence has persisted no assistant message
\* for its turn.
C5_CancelledBeforeEndNothingSaved ==
    \A p \in Requests :
        (req[p].kind = "stream" /\ req[p].pc = "cancelled" /\ req[p].producer # "ended") =>
            RowsOf(p, "assistant") = {}

\* A stream is cancelled after its first chunk went out, the producer running.
C5_Witness ==
    \E p \in Requests :
        /\ req[p].kind = "stream"
        /\ req[p].pc = "cancelled"
        /\ req[p].producer = "running"
        /\ Len(req[p].frames) >= 1

---------------------------------------------------------------------------
(* C6 *)

\* C6 (as claimed): a /chat/stream request whose producer failed with a fault
\* appends no assistant message for its turn.
C6_FaultNothingSaved ==
    \A p \in Requests :
        (req[p].kind = "stream" /\ req[p].fault # <<>>) =>
            RowsOf(p, "assistant") = {}

---------------------------------------------------------------------------
(* C7 *)

\* C7: a /chat request whose agent.run met a fault never ends in an error; it
\* returns status 200 with the response "I encountered an error: <description>.
\* Please try again.", and that string is the content of the one assistant
\* message the request has appended to its session.
C7_ApologyReturnedAndSaved ==
    \A p \in Requests :
        (req[p].kind = "chat" /\ req[p].fault # <<>>) =>
            /\ req[p].status # 500
            /\ req[p].pc = "done" =>
                 LET text == "I encountered an error: " \o req[p].fault[1] \o ". Please try again."
                 IN /\ req[p].status = 200
                    /\ req[p].response # <<>>
                    /\ req[p].response[1].response = text
                    /\ \E m \in messages :
                          /\ RowsOf(p, "assistant") = {m}
                          /\ m.session_id = req[p].session_id
                          /\ m.content = text

\* A /chat request whose agent failed has returned.
C7_Witness ==
    \E p \in Requests :
        /\ req[p].kind = "chat"
        /\ req[p].fault = <<"timeout">>
        /\ req[p].pc = "done"
        /\ req[p].status = 200

---------------------------------------------------------------------------
(* C8 *)

\* C8 (as claimed): a /chat request all of whose storage operations succeed
\* (as all do here) returns a normal response, whatever fault there is on the
\* agent's side, in obtaining the agent or in running it.
C8_AgentFaultsAbsorbed ==
    \A p \in Requests :
        (req[p].kind = "chat" /\ req[p].pc = "done") => req[p].status = 200

---------------------------------------------------------------------------
(* C9 *)

\* The request found no session when it asked for its session's info.
FirstContact(p) ==
    /\ req[p].kind = "chat"
    /\ req[p].pc \notin {"idle", "get_session_info"}
    /\ req[p].session_info = <<>>

\* C9: of two first-contact requests on the same unseen session id, whatever
\* the interleaving of their steps, neither fails in get_session_info,
\* create_session or add_message, and once both have added their user message
\* there is exactly one session row of that id and both user messages are stored.
C9_FirstContactRace ==
    \A p, q \in Requests :
        (/\ p # q
         /\ FirstContact(p) /\ FirstContact(q)
         /\ req[p].session_id = req[q].session_id
         /\ \A r \in Requests : req[r].kind # "delete") =>
            /\ ~(req[p].status = 500 /\ req[p].ids = <<>>)
            /\ req[p].pc \notin {"create_session", "get_messages", "add_user", "add_user_txn"} =>
                  /\ Len(req[p].ids) >= 1
                  /\ \E m \in messages :
                        /\ m.id = req[p].ids[1]
                        /\ m.session_id = req[p].session_id
                        /\ m.role = "user"
                        /\ m.content = req[p].message
            /\ (Len(req[p].ids) >= 1 /\ Len(req[q].ids) >= 1) =>
                  /\ Cardinality(SessionRows(sessions, req[p].session_id)) = 1
                  /\ req[p].ids[1] # req[q].ids[1]
                  /\ Cardinality({m \in MessagesOf(messages, req[p].session_id) :
                                     m.role = "user"}) = 2

\* Both requests found no session, and both have stored their user message.
C9_Witness ==
    /\ FirstContact("r1") /\ FirstContact("r2")
    /\ req["r1"].session_id = req["r2"].session_id
    /\ Len(req["r1"].ids) >= 1 /\ Len(req["r2"].ids) >= 1

---------------------------------------------------------------------------
(* C11 *)

\* C11: a call of delete_session(id) made while no session id exists returns
\* False and leaves every session row and every message row as it was.
C11_DeleteAbsentNoEffect ==
    [][(/\ last'.op = "delete_session"
        /\ last' # last
        /\ ~HasSession(sessions, last'.sid)) =>
            /\ ~last'.bool
            /\ sessions' = sessions
            /\ messages' = messages
            /\ seq' = seq]_vars

\* delete_session has returned False while another session and messages of the
\* absent id itself are stored.
C11_Witness ==
    /\ last.op = "delete_session"
    /\ ~last.bool
    /\ sessions # {}
    /\ MessagesOf(messages, last.sid) # {}

---------------------------------------------------------------------------
(* C14 *)

\* C14: a call of add_message(id, ...) made while no session id exists does
\* not raise; it leaves a session id whose get_session_info is not None and
\* has metadata {}, and the message it stored, of the given id, is in every
\* list get_messages(id) may return.
C14_AddMessageCreatesSession ==
    [][(/\ last'.op = "add_message"
        /\ (last' # last \/ seq' # seq)
        /\ ~HasSession(sessions, last'.sid)) =>
            LET info == get_session_info(sessions', messages', last'.sid)
            IN /\ ~last'.raised
               /\ info # <<>>
               /\ info[1].session_id = last'.sid
               /\ info[1].metadata = {}
               /\ seq' = seq + 1
               /\ \E m \in messages' \ messages :
                     /\ m.id = seq' /\ m.session_id = last'.sid
                     /\ \A l \in get_messages(messages', last'.sid, <<>>) :
                           \E i \in 1..Len(l) : l[i] = message_dict(m)]_vars

\* add_message has just made the session it stored its message in: the
\* session's only message is the newest of the store and as old as the session.
C14_Witness ==
    /\ last.op = "add_message"
    /\ \E r \in sessions, m \in messages :
          /\ r.session_id = last.sid
          /\ MessagesOf(messages, last.sid) = {m}
          /\ m.id = seq
          /\ r.created_at = m.timestamp
          /\ r.metadata = {}

---------------------------------------------------------------------------
(* C16 *)

\* C16: the metadata of a session round-trips through the store.  A
\* create_session(id, m) that returns True leaves a session whose
\* get_session_info(id).metadata equals m ({} for None), for every mapping m
\* of string keys to JSON values; and an add_message call, on whatever session,
\* leaves the metadata get_session_info reports of every existing session as
\* it was.
C16_MetadataRoundTrip ==
    [][/\ (/\ last'.op = "create_session"
           /\ (last' # last \/ sessions' # sessions)
           /\ last'.bool) =>
            LET info == get_session_info(sessions', messages', last'.sid)
            IN /\ info # <<>>
               /\ info[1].metadata = OrEmptyDict(last'.metadata)
       /\ (last'.op = "add_message" /\ seq' # seq) =>
            \A sid \in SessionIds :
                HasSession(sessions, sid) =>
                    LET before == get_session_info(sessions, messages, sid)
                        after == get_session_info(sessions', messages', sid)
                    IN /\ after # <<>>
                       /\ after[1].metadata = before[1].metadata]_vars

\* A message has been added to a session created with {"key": "value"}, and
\* get_session_info gives that mapping.
C16_Witness ==
    /\ last.op = "add_message"
    /\ LET info == get_session_info(sessions, messages, last.sid)
       IN /\ info # <<>>
          /\ info[1].metadata = {Item(StrKey("key"), JsonStr("value"))}
          /\ info[1].message_count >= 1

---------------------------------------------------------------------------
(* C12 *)

\* The sessions updated later than t, and those updated at t or later.
UpdatedAfter(t) == {r \in sessions : r.updated_at > t}
UpdatedSince(t) == {r \in sessions : r.updated_at >= t}

\* C12: list_sessions(limit, offset) returns min(limit, k - offset) sessions
\* of the k stored (none when offset >= k), each once, in descending order of
\* updated_at; its i-th entry has rank offset + i in that order: at most
\* offset + i - 1 sessions were updated later than it and at least offset + i
\* sessions were updated no earlier.  So of three sessions with distinct
\* updated_at, list_sessions(2, 0) returns the two most recently updated,
\* newest first.
C12_ListSessionsPaged ==
    last.op = "list_sessions" =>
        LET n == last.limit[1]
            o == last.offset
            k == Cardinality(sessions)
            l == last.list
        IN /\ Len(l) = (IF o >= k THEN 0 ELSE Min(n, k - o))
           /\ \A i \in 1..Len(l) :
                 /\ \E r \in sessions :
                       /\ r.session_id = l[i].session_id
                       /\ r.updated_at = l[i].updated_at
                       /\ r.created_at = l[i].created_at
                 /\ Cardinality(UpdatedAfter(l[i].updated_at)) <= o + i - 1
                 /\ Cardinality(UpdatedSince(l[i].updated_at)) >= o + i
           /\ \A i, j \in 1..Len(l) :
                 i < j => /\ l[i].updated_at >= l[j].updated_at
                          /\ l[i].session_id # l[j].session_id

\* Three sessions with distinct updated_at are stored, and list_sessions(2, 0)
\* has returned two of them, the newest first.
C12_Witness ==
    /\ last.op = "list_sessions"
    /\ last.limit = <<2>>
    /\ last.offset = 0
    /\ Cardinality(sessions) = 3
    /\ \A r1, r2 \in sessions : r1 # r2 => r1.updated_at # r2.updated_at
    /\ Len(last.list) = 2
    /\ last.list[1].updated_at > last.list[2].updated_at
    /\ \A r \in sessions : r.updated_at <= last.list[1].updated_at

---------------------------------------------------------------------------
(* C13 *)

\* C13: in every state, for every existing session, the message_count that
\* get_session_info(id) reports is the length of every list get_messages(id)
\* may return, and so is the message_count of every entry of a list that
\* list_sessions has returned.
C13_MessageCount ==
    /\ \A sid \in ListedIds :
          HasSession(sessions, sid) =>
              \A l \in get_messages(messages, sid, <<>>) :
                  get_session_info(sessions, messages, sid)[1].message_count = Len(l)
    /\ last.op = "list_sessions" =>
          \A i \in 1..Len(last.list) :
              \A l \in get_messages(messages, last.list[i].session_id, <<>>) :
                  last.list[i].message_count = Len(l)

\* Session "s1" holds user "Hello" and assistant "Hi there!"; a listing has
\* returned it with message_count 2, beside a session without messages.
C13_Witness ==
    /\ last.op = "list_sessions"
    /\ {[role |-> m.role, content |-> m.content] : m \in MessagesOf(messages, "s1")} = Turns
    /\ get_session_info(sessions, messages, "s1") # <<>>
    /\ get_session_info(sessions, messages, "s1")[1].message_count = 2
    /\ \E i, j \in 1..Len(last.list) :
          /\ last.list[i].session_id = "s1"
          /\ last.list[i].message_count = 2
          /\ last.list[j].message_count = 0

---------------------------------------------------------------------------
(* C18 *)

\* C18: a call of clear_old_sessions(days) removes exactly the sessions whose
\* age, the time since their updated_at, is more than `days`; it leaves every
\* other session row as it was and returns the number of rows it removed.
C18_SweepRemovesOld ==
    [][(/\ last'.op = "clear_old_sessions"
        /\ (last' # last \/ sessions' # sessions)) =>
            /\ sessions' = {r \in sessions : ~(now - r.updated_at > last'.days)}
            /\ last'.count = Cardinality(sessions \ sessions')
            /\ now' = now]_vars

\* A sweep of one day has removed a session and has left one that was updated
\* exactly one day before.
C18_Witness ==
    /\ last.op = "clear_old_sessions"
    /\ last.days = 1
    /\ last.count >= 1
    /\ \E r \in sessions : r.updated_at = now - 1

---------------------------------------------------------------------------
(* C15 *)

\* C15: a create_session(id, metadata') made by POST /sessions on an id that
\* exists changes no session row (metadata, created_at and updated_at stay)
\* and no message, whatever metadata' is, reports False and raises nothing;
\* and the endpoint, finding the session, answers 200 with the session as it
\* is stored: its id, created_at, message count and metadata.
C15_CreateExistingNoOp ==
    [][\A p \in Requests :
        /\ (/\ req[p].pc = "post_create"
            /\ req'[p].pc # "post_create"
            /\ HasSession(sessions, req[p].session_id)) =>
              /\ sessions' = sessions
              /\ messages' = messages
              /\ req'[p].pc = "post_info"
              /\ ~req'[p].created
        /\ (/\ req[p].pc = "post_info"
            /\ req'[p].pc # "post_info"
            /\ ~req[p].created
            /\ HasSession(sessions, req[p].session_id)) =>
              /\ sessions' = sessions
              /\ messages' = messages
              /\ req'[p].status = 200
              /\ \E r \in sessions :
                    /\ r.session_id = req[p].session_id
                    /\ req'[p].response =
                          <<[session_id |-> r.session_id,
                             created_at |-> r.created_at,
                             message_count |->
                                 Cardinality(MessagesOf(messages, r.session_id)),
                             metadata |-> {Item(StrKey(m.name), m.value) :
                                              m \in r.metadata}]>>]_vars

\* POST /sessions with {"key": "value"} on a session that existed with empty
\* metadata and a message has answered 200 with the session as it was.
C15_Witness ==
    \E p \in Requests :
        /\ req[p].kind = "create"
        /\ req[p].pc = "done"
        /\ ~req[p].created
        /\ req[p].status = 200
        /\ req[p].metadata # <<>>
        /\ req[p].response[1].metadata = {}
        /\ req[p].response[1].message_count >= 1

---------------------------------------------------------------------------
(* C17 *)

\* C17: the frames a /chat/stream response has emitted are, in order, one
\* "data: <chunk>\n\n" frame for each chunk produced so far; while generate
\* waits for the next chunk every chunk produced has its frame out; the
\* end-of-stream frame "data: [DONE]\n\n" is emitted only after the producer
\* has ended, once, and on completion it is the last frame.
C17_FramesThenDone ==
    \A p \in Requests :
        req[p].kind = "stream" =>
            LET n == Len(req[p].chunks)
                frames == req[p].frames
            IN /\ Len(frames) \in {n, n + 1}
               /\ \A i \in 1..n : frames[i] = "data: " \o req[p].chunks[i] \o "\n\n"
               /\ req[p].pc = "astream" => Len(frames) = n
               /\ Len(frames) = n + 1 =>
                     /\ req[p].producer = "ended"
                     /\ frames[n + 1] = "data: [DONE]\n\n"
               /\ req[p].pc = "closed" => Len(frames) = n + 1

\* A stream of two chunks has completed: three frames went out.
C17_Witness ==
    \E p \in Requests :
        /\ req[p].kind = "stream"
        /\ req[p].pc = "closed"
        /\ req[p].chunks = <<"Hi", "[DONE]">>
        /\ Len(req[p].frames) = 3

---------------------------------------------------------------------------
(* C19 *)

\* C19: in /chat and /chat/stream the history is read while the request has
\* not yet stored anything, so it is a listing of the session without the
\* current turn; it is not changed afterwards; and when the agent is invoked
\* the user message of the request is stored, the history passed is the one
\* read, and the input passed is the request's message.
C19_HistoryBeforeUserTurn ==
    [][\A p \in Requests :
        /\ (req[p].pc = "get_messages" /\ req'[p].pc # "get_messages") =>
              /\ req[p].ids = <<>>
              /\ req'[p].ids = <<>>
              /\ req'[p].chat_history \in get_messages(messages, req[p].session_id, <<>>)
        /\ (req[p].pc \in {"add_user", "add_user_txn", "get_agent", "run", "astream",
                            "add_asst", "add_asst_txn", "yield_done"}) =>
              req'[p].chat_history = req[p].chat_history
        /\ (req[p].call = <<>> /\ req'[p].call # <<>>) =>
              /\ req[p].pc \in {"run", "astream"}
              /\ Len(req[p].ids) = 1
              /\ \E m \in messages :
                    /\ m.id = req[p].ids[1]
                    /\ m.session_id = req[p].session_id
                    /\ m.role = "user"
                    /\ m.content = req[p].message
              /\ req'[p].call[1].chat_history = req[p].chat_history
              /\ req'[p].call[1].user_input = req[p].message]_vars

\* The agent has been invoked on a stream request with a history of two
\* earlier messages, the request's own user message being the third stored.
C19_Witness ==
    \E p \in Requests :
        /\ req[p].kind = "stream"
        /\ req[p].call # <<>>
        /\ Len(req[p].call[1].chat_history) = 2
        /\ Cardinality(MessagesOf(messages, req[p].session_id)) >= 3

---------------------------------------------------------------------------
(* C20 *)

\* No row of another request lies between the two rows of request p in its
\* session: nobody else wrote to the session while p served its turn.
NoWriterBetween(p) ==
    \A q \in Requests \ {p} :
        \A i \in 1..Len(req[q].ids) :
            \/ req[q].ids[i] < req[p].ids[1]
            \/ req[q].ids[i] > req[p].ids[2]
            \/ \E m \in messages : m.id = req[q].ids[i] /\ m.session_id # req[p].session_id

\* C20: a /chat request that has returned 200 has appended exactly two
\* messages to its session, first the user message and then an assistant
\* message whose content is the output of agent.run and whose metadata holds
\* the tools used; it has returned that output and that list of tools; in the
\* message log of the session, taken in insertion order, the two follow the
\* messages the request had read as history and, when nobody else wrote in
\* between, are adjacent.  When the executor answered, output and tools are
\* the executor's.
C20_ChatAppendsTwo ==
    \A p \in Requests :
        (req[p].kind = "chat" /\ req[p].pc = "done" /\ req[p].status = 200) =>
            LET sid == req[p].session_id
                log == AppendOrder(messages, sid)
                history == req[p].call[1].chat_history
            IN /\ Len(req[p].ids) = 2
               /\ req[p].ids[1] < req[p].ids[2]
               /\ req[p].result # <<>>
               /\ req[p].response =
                     <<[response |-> req[p].result[1].output, session_id |-> sid,
                        tools_used |-> req[p].result[1].tools_used]>>
               /\ req[p].fault = <<>> =>
                     \E answer \in Answers :
                         /\ req[p].response[1].response = answer.output
                         /\ req[p].response[1].tools_used = answer.tools_used
               /\ \E u, a \in MessagesOf(messages, sid) :
                     /\ u.id = req[p].ids[1]
                     /\ u.role = "user"
                     /\ u.content = req[p].message
                     /\ a.id = req[p].ids[2]
                     /\ a.role = "assistant"
                     /\ a.content = req[p].response[1].response
                     /\ a.metadata = {[name |-> "tools_used",
                                       value |-> [type |-> "list",
                                                  items |-> req[p].response[1].tools_used]]}
                     /\ LET k == Cardinality({m \in MessagesOf(messages, sid) :
                                                 m.id <= u.id})
                        IN /\ k > Len(history)
                           /\ log[k] = message_dict(u)
                           /\ NoWriterBetween(p) =>
                                 /\ Len(log) >= k + 1
                                 /\ log[k + 1] = message_dict(a)
                                 /\ {m \in MessagesOf(messages, sid) :
                                        u.id < m.id /\ m.id < a.id} = {}

\* A second turn on a session: the request read a history of two messages,
\* the executor answered, and the session now holds four.
C20_Witness ==
    \E p \in Requests :
        /\ req[p].kind = "chat"
        /\ req[p].pc = "done"
        /\ req[p].status = 200
        /\ req[p].fault = <<>>
        /\ Len(req[p].chat_history) = 2
        /\ NoWriterBetween(p)
        /\ Cardinality(MessagesOf(messages, req[p].session_id)) = 4

---------------------------------------------------------------------------
(* C21 *)

\* C21 (as claimed): the total of a GET /sessions response is the number of
\* sessions the store holds when the listing is made, whatever limit and
\* offset are.
C21_TotalIsStoreTotal ==
    [][\A p \in Requests :
        (req[p].pc = "list_sessions" /\ req'[p].pc = "done") =>
            req'[p].response[1].total = Cardinality(sessions)]_vars

---------------------------------------------------------------------------
(* C22 *)

\* C22: for an id that has no session get_session_info returns None; GET
\* /sessions/{id} and DELETE /sessions/{id} on such an id answer 404 and
\* change neither table; and neither endpoint ever answers 500.
C22_AbsentIs404 ==
    [][\A p \in Requests :
        /\ (/\ req[p].pc \in {"get_session", "delete_session"}
            /\ req'[p].pc = "done"
            /\ ~HasSession(sessions, req[p].session_id)) =>
              /\ get_session_info(sessions, messages, req[p].session_id) = <<>>
              /\ req'[p].status = 404
              /\ sessions' = sessions
              /\ messages' = messages
              /\ seq' = seq
        /\ (req[p].pc \in {"get_session", "delete_session"} /\ req'[p].pc = "done") =>
              req'[p].status \in {200, 404}]_vars

\* GET /sessions/{id} has answered 404 for an id without session, whose
\* messages of an earlier session are still stored beside another session.
C22_Witness ==
    \E p \in Requests :
        /\ req[p].kind = "get"
        /\ req[p].pc = "done"
        /\ req[p].status = 404
        /\ sessions # {}
        /\ MessagesOf(messages, req[p].session_id) # {}

---------------------------------------------------------------------------
(* C23 *)

---------------------------------------------------------------------------
(* C24 *)

\* C24 (as claimed): in every state, whatever the interleaving of the steps of
\* add_message with a concurrent delete of the same id, an id that has
\* messages stored has a session: no message is visible while its session is
\* absent.
C24_MessagesHaveSession ==
    \A sid \in SessionIds :
        get_messages(messages, sid, <<>>) # {<<>>} =>
            get_session_info(sessions, messages, sid) # <<>>

---------------------------------------------------------------------------
(* C25 *)

\* C25 (as claimed): when clear_old_sessions removes a session, none of that
\* session's messages remains in the store.
C25_SweepCascades ==
    [][\A sid \in ListedIds :
        (/\ last'.op = "clear_old_sessions"
         /\ HasSession(sessions, sid)
         /\ ~HasSession(sessions', sid)) =>
            MessagesOf(messages', sid) = {}]_vars

---------------------------------------------------------------------------
(* C26 *)

\* C26: a request that is waiting on the agent, agent.run or agent.astream in
\* progress, holds no open storage connection (and so no transaction and no
\* lock): a connection is open only inside a call of add_message.
C26_NoConnectionAcrossAgent ==
    \A p \in Requests :
        /\ req[p].pc \in {"get_agent", "run", "astream"} => req[p].conn = "none"
        /\ req[p].conn = "open" => req[p].pc \in {"add_user_txn", "add_asst_txn"}

\* A stream is waiting on the agent after its first chunk while another
\* request on the same session is inside its add_message, connection open.
C26_Witness ==
    \E p, q \in Requests :
        /\ req[p].pc = "astream"
        /\ Len(req[p].frames) >= 1
        /\ req[q].session_id = req[p].session_id
        /\ req[q].conn = "open"

---------------------------------------------------------------------------
(* C27 *)

\* The message a step has inserted.
Inserted == CHOOSE m \in messages' : m.id = seq'

\* C27 (as claimed): every add_message(id, ...) sets the updated_at of session
\* id to the insertion time of its message, so that the session's updated_at
\* is never earlier than the timestamp of any of its messages.
C27_UpdatedAtIsInsertionTime ==
    [][seq' # seq =>
        \A r \in SessionRows(sessions', Inserted.session_id) :
            /\ r.updated_at = Inserted.timestamp
            /\ \A m \in MessagesOf(messages', r.session_id) :
                  r.updated_at >= m.timestamp]_vars

\* C27 (amended): every add_message(id, ...) sets the updated_at of session id
\* to the time of its UPDATE statement, which is not later than the timestamp
\* its message gets and not earlier than the timestamp of any message stored
\* before; it leaves created_at and metadata of that session and all fields
\* of every other session unchanged; and in every step a session's
\* updated_at does not decrease and is never earlier than its created_at.
C27_UpdatedAtAdvances ==
    [][/\ seq' # seq =>
            LET id == Inserted.session_id
            IN /\ \A r \in SessionRows(sessions', id) :
                     /\ r.updated_at = now
                     /\ r.updated_at <= Inserted.timestamp
                     /\ \A m \in MessagesOf(messages, id) : r.updated_at >= m.timestamp
               /\ {[r EXCEPT !.updated_at = 0] : r \in SessionRows(sessions', id)}
                     = {[r EXCEPT !.updated_at = 0] : r \in SessionRows(sessions, id)}
               /\ sessions' \ SessionRows(sessions', id)
                     = sessions \ SessionRows(sessions, id)
       /\ \A r \in sessions, r2 \in sessions' :
            r.session_id = r2.session_id => r2.updated_at >= r.updated_at
       /\ \A r2 \in sessions' : r2.updated_at >= r2.created_at]_vars

\* A session holds a message stamped a second after its updated_at, the clock
\* having passed between the UPDATE and the INSERT of add_message, beside
\* another session.
C27_Witness ==
    \E r, o \in sessions :
        /\ o.session_id # r.session_id
        /\ \E m \in MessagesOf(messages, r.session_id) : r.updated_at < m.timestamp

---------------------------------------------------------------------------
(* C28 *)

\* C28: the message log is append-only.  A call of add_message adds exactly
\* one message and keeps every message stored before it, field for field; a
\* call of create_session, get_messages, get_session_info or list_sessions
\* leaves the messages as they were.
C28_AppendOnly ==
    [][/\ seq' # seq =>
            /\ last'.op = "add_message"
            /\ messages \subseteq messages'
            /\ Cardinality(messages' \ messages) = 1
            /\ \A m \in messages' \ messages :
                  /\ m.session_id = last'.sid
                  /\ \A o \in messages : o.id # m.id
       /\ (/\ seq' = seq
           /\ last'.op \in {"create_session", "get_messages", "get_session_info",
                             "list_sessions", "add_message"}) =>
            messages' = messages]_vars

\* A second message has been added to a session a second after the first:
\* both are stored.
C28_Witness ==
    /\ last.op = "add_message"
    /\ \E m1, m2 \in MessagesOf(messages, last.sid) :
          /\ m1.id < m2.id
          /\ m1.timestamp < m2.timestamp
          /\ m1.content # m2.content

---------------------------------------------------------------------------
(* C29 *)

\* C29: message ids are unique in the store; each insertion gives an id
\* larger than every id given before, those of messages of deleted sessions
\* included, so that no id is used twice.
C29_IdsIncrease ==
    [][/\ \A m1, m2 \in messages : m1.id = m2.id => m1 = m2
       /\ \A m \in messages : m.id >= 1 /\ m.id <= seq
       /\ seq' >= seq
       /\ \A m \in messages' \ messages :
            /\ m.id = seq + 1
            /\ seq' = seq + 1
            /\ \A o \in messages : m.id > o.id]_vars

\* A session that was deleted and created again holds a message from before
\* the deletion and a later one, with a larger id.
C29_Witness ==
    \E r \in sessions :
        \E m1, m2 \in MessagesOf(messages, r.session_id) :
            /\ m1.timestamp < r.created_at
            /\ m2.timestamp >= r.created_at
            /\ m1.id < m2.id

---------------------------------------------------------------------------
(* C30 *)

\* C30 (as claimed): whatever text a chunk of the agent has, the frame that
\* /chat/stream sends for it differs from the end-of-stream frame
\* "data: [DONE]".
C30_ContentFrameIsNotDone ==
    \A p \in Requests :
        \A i \in 1..Len(req[p].chunks) :
            /\ req[p].frames[i] = frame(req[p].chunks[i])
            /\ req[p].frames[i] # DoneFrame

---------------------------------------------------------------------------
(* C31 *)

\* C31 (as claimed): get_messages(id, limit=0) returns the empty list, the
\* oldest 0 messages, however many messages the session holds.
C31_LimitZeroIsEmpty ==
    (last.op = "get_messages" /\ last.limit = <<0>>) =>
        /\ last.list \in get_messages(messages, last.sid, <<0>>)
        /\ last.list = <<>>

---------------------------------------------------------------------------
(* C32 *)

\* C32 (as claimed): the agent that serves a chat request has that request's
\* temperature and max_tokens, or the configured default for one the request
\* omits, whatever options earlier requests carried.
C32_AgentHasRequestOptions ==
    \A p \in Requests :
        (req[p].kind = "chat" /\ req[p].pc \in {"run", "add_asst", "add_asst_txn"}) =>
            agent = <<[temperature |-> IF req[p].temperature = <<>>
                                       THEN openai_temperature
                                       ELSE req[p].temperature[1],
                       max_tokens |-> IF req[p].max_tokens = <<>>
                                      THEN openai_max_tokens
                                      ELSE req[p].max_tokens[1]]>>

---------------------------------------------------------------------------
(* C33 *)

\* C33 (as claimed): with enable_auth true, whatever the api_key setting is,
\* a request whose X-API-Key header is not equal to the configured api_key is
\* answered 401 before its handler runs.
C33_OnlyTheKeyIsAccepted ==
    \A p \in Requests :
        (/\ req[p].kind \in {"get", "delete"}
         /\ req[p].settings.enable_auth
         /\ req[p].x_api_key # req[p].settings.api_key) =>
            /\ req[p].pc = "done"
            /\ req[p].status = 401

---------------------------------------------------------------------------
(* C34 *)

\* C34 (as claimed): a session that create_session has just created, the call
\* returning True, has message_count 0 and an empty get_messages result, also
\* when an earlier session of the same id held messages and was deleted.
C34_NewSessionIsEmpty ==
    (last.op = "create_session" /\ last.bool) =>
        /\ get_session_info(sessions, messages, last.sid) # <<>>
        /\ get_session_info(sessions, messages, last.sid)[1].message_count = 0
        /\ get_messages(messages, last.sid, <<>>) = {<<>>}

---------------------------------------------------------------------------
(* C35 *)

\* C35 (as claimed): a /chat request that ends in a 500 response leaves the
\* store as it was before the request.  For a request served alone on the
\* empty store: it has appended no message, and once it is done no session
\* and no message is stored.
C35_FailedChatLeavesStore ==
    \A p \in Requests :
        (/\ req[p].kind = "chat"
         /\ req[p].pc = "done"
         /\ req[p].status = 500
         /\ \A q \in Requests \ {p} : req[q].pc = "idle") =>
            /\ req[p].ids = <<>>
            /\ sessions = {}
            /\ messages = {}

---------------------------------------------------------------------------
(* C36 *)

\* C36: in /chat/stream, once the end-of-stream frame has been emitted the
\* assistant message of the turn, the concatenation of the chunks, is stored
\* among the messages of the session, which get_messages lists; and a response whose
\* final append failed has emitted no end-of-stream frame and stored no
\* assistant message.
C36_DoneOnlyAfterSave ==
    \A p \in Requests :
        req[p].kind = "stream" =>
            /\ Len(req[p].frames) > Len(req[p].chunks) =>
                  \E m \in RowsOf(p, "assistant") :
                      /\ m.session_id = req[p].session_id
                      /\ m.content = Concat(req[p].chunks)
                      /\ m.role = "assistant"
                      /\ m \in MessagesOf(messages, req[p].session_id)
            /\ req[p].pc = "aborted" =>
                  /\ Len(req[p].frames) = Len(req[p].chunks)
                  /\ RowsOf(p, "assistant") = {}

\* The client of a stream of two chunks has received the end-of-stream frame,
\* and the history of the session holds the user's and the assistant's turn.
C36_Witness ==
    \E p \in Requests :
        /\ req[p].kind = "stream"
        /\ req[p].pc = "closed"
        /\ Len(req[p].chunks) = 2
        /\ req[p].frames[3] = DoneFrame
        /\ \E h \in get_messages(messages, req[p].session_id, <<>>) :
              /\ Len(h) = 2
              /\ h[2].content = "Hi[DONE]"

====
